---- MODULE Spec2Model ----
(***************************************************************************)
(* Model of the etherealog engine: the Engine facade (create_account,      *)
(* execute), the Tracer inspector that buffers one Step event per          *)
(* instruction, and the HTTP handlers that build one Engine per request.   *)
(* The wrapped EVM is modelled as far as the tracer can observe it: its    *)
(* inspect loop (step, instruction, step_end), call frames, gas metering   *)
(* and memory for the opcodes used by the repository's tests.              *)
(***************************************************************************)
EXTENDS Integers, Sequences, FiniteSets, TLC

(***************************************************************************)
(* Bounds of the model.                                                    *)
(***************************************************************************)
\* number of Engine::execute calls made on the library engine
MaxExecutes == 2
\* number of HTTP requests in flight
MaxRequests == 2
\* number of create_account calls in the script given to the pair of engines
MaxAccounts == 2

(***************************************************************************)
(* Option<T>: None is the empty sequence, Some(x) is <<x>>.                *)
(***************************************************************************)
None == << >>
Some(x) == << x >>
IsSome(o) == Len(o) = 1
Unwrap(o) == o[1]

Min(a, b) == IF a <= b THEN a ELSE b
Max(a, b) == IF a >= b THEN a ELSE b
\* u64::saturating_sub
SatSub(a, b) == IF a >= b THEN a - b ELSE 0

(***************************************************************************)
(* Opcodes (revm::bytecode::opcode) used by the programs below.            *)
(***************************************************************************)
STOP == 0
POP == 80
MSTORE8 == 83
SSTORE == 85
GAS == 90
PUSH0 == 95
PUSH1 == 96
PUSH2 == 97
DUP1 == 128
CALL == 241
RETURN == 243
STATICCALL == 250
REVERT == 253
INVALID == 254

(***************************************************************************)
(* Addresses.  ADDR_CALLER is TxEnv::default().caller (the zero address),  *)
(* ADDR_CONTRACT the account the transactions call, ADDR_CALLEE the        *)
(* account the example program STATICCALLs (0xff).                         *)
(***************************************************************************)
ADDR_CALLER == 0
ADDR_CONTRACT == 241
ADDR_CALLEE == 255
Addrs == {ADDR_CALLER, ADDR_CONTRACT, ADDR_CALLEE}

(***************************************************************************)
(* Bytecode of the programs the engine is driven with.                     *)
(***************************************************************************)
\* tests::simple: PUSH1 0x40 (then the implicit STOP)
CodeSimple == << PUSH1, 64 >>
\* tests::underflow: POP on an empty stack
CodeUnderflow == << POP >>
\* tests::example: 604080536040604055604060006040600060ff5afa6040f3
CodeExample ==
    << PUSH1, 64, DUP1, MSTORE8, PUSH1, 64, PUSH1, 64, SSTORE,
       PUSH1, 64, PUSH1, 0, PUSH1, 64, PUSH1, 0, PUSH1, 255, GAS, STATICCALL,
       PUSH1, 64, RETURN >>
\* the callee of src/main.rs: PUSH2 0xbeef STOP
CodeCallee == << PUSH2, 190, 239, STOP >>
\* tests::call with a 32-byte return buffer and the callee at 0xff
CodeCall ==
    << PUSH1, 32, PUSH0, PUSH0, PUSH0, PUSH0, PUSH1, 255, GAS, CALL, STOP >>
\* PUSH0 PUSH0 REVERT
CodeRevert == << PUSH0, PUSH0, REVERT >>
\* a callee that halts on the designated invalid instruction
CodeInvalid == << PUSH0, INVALID >>
\* PUSH1 0x40 PUSH1 0x40 SSTORE: the store of tests::example on its own
CodeStore == << PUSH1, 64, PUSH1, 64, SSTORE >>
NoCode == << >>


(***************************************************************************)
(* Accounts and the journaled state (revm::state::Account as far as the    *)
(* engine facade and the handlers set it).                                 *)
(***************************************************************************)
EmptyStorage == [k \in {} |-> 0]
\* AccountInfo::default(): what EmptyDB yields for any address
DefaultAccount ==
    [balance |-> 0, nonce |-> 0, code |-> NoCode, storage |-> EmptyStorage,
     cold |-> FALSE]
\* AccountInfo::from_bytecode(code).into(): no balance, nonce 1
from_bytecode(code) == [DefaultAccount EXCEPT !.code = code, !.nonce = 1]

\* Journal::load_account: an account not yet in the state comes from EmptyDB
\* and is cold; one already there is warm unless a revert marked it cold.
LoadAccount(state, addr) ==
    IF addr \in DOMAIN state
    THEN [state |-> [state EXCEPT ![addr].cold = FALSE],
          is_cold |-> state[addr].cold]
    ELSE [state |-> (addr :> DefaultAccount) @@ state, is_cold |-> TRUE]

RevertStorage(now, snap) ==
    [k \in DOMAIN now |->
        IF k \in DOMAIN snap THEN snap[k]
        ELSE [original_value |-> now[k].original_value,
              present_value |-> now[k].original_value, is_cold |-> TRUE]]

\* Journal::checkpoint_revert: changes since the checkpoint are undone;
\* accounts and slots loaded since then stay loaded and become cold again.
checkpoint_revert(now, snap) ==
    [a \in DOMAIN now |->
        IF a \in DOMAIN snap
        THEN [snap[a] EXCEPT !.storage = RevertStorage(now[a].storage, @)]
        ELSE [now[a] EXCEPT !.cold = TRUE,
                            !.storage = RevertStorage(@, EmptyStorage)]]

(***************************************************************************)
(* InstructionResult classes (revm::interpreter::InstructionResult).       *)
(***************************************************************************)
OkResults == {"Continue", "Stop", "Return", "SelfDestruct"}
RevertResults == {"Revert", "CallTooDeep", "OutOfFunds"}
ErrorResults ==
    {"OutOfGas", "MemoryOOG", "ReentrancySentryOOG", "OpcodeNotFound",
     "InvalidFEOpcode", "StackUnderflow", "StackOverflow",
     "StateChangeDuringStaticCall", "CallNotAllowedInsideStatic"}
is_ok(r) == r \in OkResults
is_revert(r) == r \in RevertResults
is_error(r) == r \in ErrorResults
is_ok_or_revert(r) == is_ok(r) \/ is_revert(r)

(***************************************************************************)
(* The interpreter: gas, stack and memory helpers.                         *)
(***************************************************************************)
Zeros(n) == [i \in 1..n |-> 0]
OpAt(code, pc) == IF pc < Len(code) THEN code[pc + 1] ELSE STOP
ByteAt(code, pc) == IF pc < Len(code) THEN code[pc + 1] ELSE 0
Halt(f, r) == [f EXCEPT !.result = r]
Peek(f, k) == f.stack[Len(f.stack) - k]
PopN(f, n) == [f EXCEPT !.stack = SubSeq(@, 1, Len(@) - n)]
Push(f, v) == [f EXCEPT !.stack = Append(@, v)]
Running(f) == f.result = "Continue"

num_words(n) == (n + 31) \div 32
memory_gas(w) == (3 * w) + ((w * w) \div 512)

\* gas!: Gas::record_cost; the remaining gas is left as it was on failure
record_cost(f, cost) ==
    IF f.gas >= cost THEN [f EXCEPT !.gas = @ - cost] ELSE Halt(f, "OutOfGas")

\* resize_memory!: pay for and zero-fill the words up to offset + len
resize_memory(f, offset, len) ==
    LET cur == num_words(Len(f.memory))
        new == num_words(offset + len)
        cost == memory_gas(new) - memory_gas(cur)
    IN  IF len = 0 \/ new <= cur THEN f
        ELSE IF f.gas < cost THEN Halt(f, "MemoryOOG")
        ELSE [f EXCEPT !.gas = @ - cost,
                       !.memory = @ \o Zeros(new * 32 - Len(@))]

SetBytes(mem, offset, bytes) ==
    [i \in 1..Len(mem) |->
        IF i > offset /\ i <= offset + Len(bytes) THEN bytes[i - offset]
        ELSE mem[i]]

(***************************************************************************)
(* Instructions that touch only the interpreter.                           *)
(***************************************************************************)
op_push0(f) ==
    LET f1 == record_cost(f, 2) IN IF Running(f1) THEN Push(f1, 0) ELSE f1

\* PUSH1 / PUSH2: the n immediate bytes, big endian
op_push(f, n) ==
    LET f1 == record_cost(f, 3)
        v == IF n = 1 THEN ByteAt(f.code, f.pc)
             ELSE (ByteAt(f.code, f.pc) * 256) + ByteAt(f.code, f.pc + 1)
    IN  IF Running(f1) THEN [Push(f1, v) EXCEPT !.pc = @ + n] ELSE f1

op_dup1(f) ==
    LET f1 == record_cost(f, 3)
    IN  IF ~Running(f1) THEN f1
        ELSE IF Len(f1.stack) < 1 THEN Halt(f1, "StackUnderflow")
        ELSE Push(f1, Peek(f1, 0))

op_pop(f) ==
    LET f1 == record_cost(f, 2)
    IN  IF ~Running(f1) THEN f1
        ELSE IF Len(f1.stack) < 1 THEN Halt(f1, "StackUnderflow")
        ELSE PopN(f1, 1)

op_gas(f) ==
    LET f1 == record_cost(f, 2) IN IF Running(f1) THEN Push(f1, f1.gas) ELSE f1

op_mstore8(f) ==
    LET f1 == record_cost(f, 3)
    IN  IF ~Running(f1) THEN f1
        ELSE IF Len(f1.stack) < 2 THEN Halt(f1, "StackUnderflow")
        ELSE LET offset == Peek(f1, 0)
                 value == Peek(f1, 1)
                 f2 == resize_memory(PopN(f1, 2), offset, 1)
             IN  IF ~Running(f2) THEN f2
                 ELSE [f2 EXCEPT !.memory = SetBytes(@, offset, <<value % 256>>)]

\* RETURN and REVERT: the output is memory[offset .. offset + len)
op_return(f, result) ==
    IF Len(f.stack) < 2 THEN Halt(f, "StackUnderflow")
    ELSE LET offset == Peek(f, 0)
             len == Peek(f, 1)
             f1 == resize_memory(PopN(f, 2), offset, len)
         IN  IF ~Running(f1) THEN f1
             ELSE [f1 EXCEPT !.result = result,
                             !.output = SubSeq(f1.memory, offset + 1, offset + len)]

(***************************************************************************)
(* Instructions that touch the journaled state.  They take and return the  *)
(* pair [f, state].                                                        *)
(***************************************************************************)
sstore_cost(original, current, new, is_cold) ==
    (IF new = current THEN 100
     ELSE IF original = current THEN (IF original = 0 THEN 20000 ELSE 2900)
     ELSE 100)
    + (IF is_cold THEN 2100 ELSE 0)

op_sstore(f, state) ==
    IF f.static THEN [f |-> Halt(f, "StateChangeDuringStaticCall"), state |-> state]
    ELSE IF Len(f.stack) < 2 THEN [f |-> Halt(f, "StackUnderflow"), state |-> state]
    ELSE LET index == Peek(f, 0)
             value == Peek(f, 1)
             storage == state[f.addr].storage
             slot == IF index \in DOMAIN storage THEN storage[index]
                     ELSE [original_value |-> 0, present_value |-> 0,
                           is_cold |-> TRUE]
             written == [original_value |-> slot.original_value,
                         present_value |-> value, is_cold |-> FALSE]
             state1 == [state EXCEPT ![f.addr].storage = (index :> written) @@ @]
             f1 == PopN(f, 2)
             cost == sstore_cost(slot.original_value, slot.present_value,
                                 value, slot.is_cold)
         IN  [f |-> IF f1.gas <= 2300 THEN Halt(f1, "ReentrancySentryOOG")
                    ELSE record_cost(f1, cost),
              state |-> state1]

\* CALL (nargs = 7) and STATICCALL (nargs = 6), for calls that send no value
op_call(f, state, nargs) ==
    IF Len(f.stack) < nargs THEN [f |-> Halt(f, "StackUnderflow"), state |-> state]
    ELSE LET local_gas_limit == Peek(f, 0)
             to == Peek(f, 1)
             in_offset == Peek(f, nargs - 4)
             in_len == Peek(f, nargs - 3)
             out_offset == Peek(f, nargs - 2)
             out_len == Peek(f, nargs - 1)
             f1 == resize_memory(PopN(f, nargs), in_offset, in_len)
             f2 == IF Running(f1) THEN resize_memory(f1, out_offset, out_len) ELSE f1
             load == LoadAccount(state, to)
             f3 == record_cost(f2, IF load.is_cold THEN 2600 ELSE 100)
             gas_limit == Min(f3.gas - (f3.gas \div 64), local_gas_limit)
             f4 == record_cost(f3, gas_limit)
             inputs == [target |-> to, gas_limit |-> gas_limit,
                        is_static |-> f.static \/ nargs = 6,
                        ret |-> [offset |-> out_offset, size |-> out_len]]
         IN  IF ~Running(f2) THEN [f |-> f2, state |-> state]
             ELSE IF ~Running(f3) THEN [f |-> f3, state |-> load.state]
             ELSE [f |-> [f4 EXCEPT !.result = "CallOrCreate",
                                    !.action = Some(inputs)],
                   state |-> load.state]

\* One instruction of the interpreter loop: the program counter moves past
\* the opcode, then the instruction runs.
instruction(f0, state) ==
    LET op == OpAt(f0.code, f0.pc)
        f == [f0 EXCEPT !.pc = @ + 1]
        pure(g) == [f |-> g, state |-> state]
    IN  CASE op = STOP -> pure(Halt(f, "Stop"))
          [] op = PUSH0 -> pure(op_push0(f))
          [] op = PUSH1 -> pure(op_push(f, 1))
          [] op = PUSH2 -> pure(op_push(f, 2))
          [] op = DUP1 -> pure(op_dup1(f))
          [] op = POP -> pure(op_pop(f))
          [] op = GAS -> pure(op_gas(f))
          [] op = MSTORE8 -> pure(op_mstore8(f))
          [] op = SSTORE -> op_sstore(f, state)
          [] op = CALL -> op_call(f, state, 7)
          [] op = STATICCALL -> op_call(f, state, 6)
          [] op = RETURN -> pure(op_return(f, "Return"))
          [] op = REVERT -> pure(op_return(f, "Revert"))
          [] op = INVALID -> pure(Halt(f, "InvalidFEOpcode"))
          [] OTHER -> pure(Halt(f, "OpcodeNotFound"))


(***************************************************************************)
(* The tracer (struct Tracer and its impl of revm::Inspector).             *)
(***************************************************************************)
HexDigits ==
    << "0", "1", "2", "3", "4", "5", "6", "7",
       "8", "9", "a", "b", "c", "d", "e", "f" >>
\* hex::encode_prefixed: "0x" then two lower-case digits per byte
encode_prefixed(bytes) ==
    << "0", "x" >> \o
    [i \in 1..(2 * Len(bytes)) |->
        LET b == bytes[(i + 1) \div 2]
        IN  IF i % 2 = 1 THEN HexDigits[(b \div 16) + 1] ELSE HexDigits[(b % 16) + 1]]

\* GasInspector::new and Tracer::new
GasInspectorNew == [gas_remaining |-> 0, last_gas_cost |-> 0]
TracerNew == [gas_inspector |-> GasInspectorNew, step |-> None, events |-> << >>]

\* What a hook hands back to the engine: the tracer, the interpreter it was
\* lent (&mut Interpreter), and whether it panicked.
HookResult(tr, interp, panic) == [tracer |-> tr, interp |-> interp, panic |-> panic]

Tracer_initialize_interp(tr, interp) ==
    HookResult([tr EXCEPT !.gas_inspector.gas_remaining = interp.gas], interp, FALSE)

\* Mutant: the memory is encoded even when it is empty
StepMemory_Always(interp) ==
    Some(encode_prefixed(SubSeq(interp.memory, 1, Len(interp.memory))))

\* The memory field of StepPre
StepMemory(interp) ==
    IF Len(interp.memory) = 0 THEN None
    ELSE Some(encode_prefixed(SubSeq(interp.memory, 1, Len(interp.memory))))

StepPre(interp) ==
    [pc |-> interp.pc, op |-> OpAt(interp.code, interp.pc),
     stack |-> interp.stack, gas |-> interp.gas, memory |-> StepMemory(interp)]

\* Mutant: the gas inspector is not told of the step
Tracer_step_NoGasInspector(tr, interp) ==
    IF IsSome(tr.step) THEN HookResult(tr, interp, TRUE)
    ELSE HookResult([tr EXCEPT !.step = Some(StepPre(interp))], interp, FALSE)

Tracer_step(tr, interp) ==
    IF IsSome(tr.step) THEN HookResult(tr, interp, TRUE)
    ELSE HookResult([tr EXCEPT !.gas_inspector.gas_remaining = interp.gas,
                               !.step = Some(StepPre(interp))],
                    interp, FALSE)

\* Mutant: a revert is not reported as an error
StepError_ErrorOnly(result) ==
    IF is_error(result) THEN Some(result) ELSE None

\* The error field of Step
StepError(result) ==
    IF is_error(result) \/ is_revert(result) THEN Some(result) ELSE None

\* Mutant: the event is built from the interpreter as it is at step_end
StepEvent_Late(step, gas_cost, depth, result) ==
    [type |-> "step", pc |-> step.pc, op |-> step.op, stack |-> step.stack,
     gas |-> step.gas - gas_cost, gas_cost |-> gas_cost, depth |-> depth,
     error |-> StepError(result), memory |-> step.memory]

StepEvent(step, gas_cost, depth, result) ==
    [type |-> "step", pc |-> step.pc, op |-> step.op, stack |-> step.stack,
     gas |-> step.gas, gas_cost |-> gas_cost, depth |-> depth,
     error |-> StepError(result), memory |-> step.memory]

\* GasInspector::step_end
GasInspector_step_end(gi, remaining) ==
    [gas_remaining |-> remaining,
     last_gas_cost |-> SatSub(gi.gas_remaining, remaining)]

\* Mutant: the newest event is put in front of the buffer
Tracer_step_end_Prepend(tr, interp, depth) ==
    IF ~IsSome(tr.step) THEN HookResult(tr, interp, TRUE)
    ELSE LET gi == GasInspector_step_end(tr.gas_inspector, interp.gas)
             ev == StepEvent(Unwrap(tr.step), gi.last_gas_cost, depth, interp.result)
         IN  HookResult([gas_inspector |-> gi, step |-> None,
                         events |-> << ev >> \o tr.events],
                        interp, FALSE)

Tracer_step_end(tr, interp, depth) ==
    IF ~IsSome(tr.step) THEN HookResult(tr, interp, TRUE)
    ELSE LET gi == GasInspector_step_end(tr.gas_inspector, interp.gas)
             ev == StepEvent(Unwrap(tr.step), gi.last_gas_cost, depth, interp.result)
         IN  HookResult([gas_inspector |-> gi, step |-> None,
                         events |-> Append(tr.events, ev)],
                        interp, FALSE)

\* Mutant: the hook answers the call itself
Tracer_call_Substitute(tr, inputs) ==
    Some([result |-> "Stop", gas |-> inputs.gas_limit, output |-> << >>,
          ret |-> inputs.ret])

\* call, create and eofcreate: the outcome the hook substitutes, if any
Tracer_call(tr, inputs) == None

\* call_end and create_end: GasInspector::call_end spends the gas of a
\* failed outcome
Tracer_call_end(tr, outcome) ==
    IF is_error(outcome.result)
    THEN [tracer |-> [tr EXCEPT !.gas_inspector.gas_remaining = 0],
          outcome |-> [outcome EXCEPT !.gas = 0]]
    ELSE [tracer |-> tr, outcome |-> outcome]


(***************************************************************************)
(* The engine: struct Engine around revm's Evm with the Tracer attached.   *)
(* An engine value holds the journaled state, the tracer, the call frames  *)
(* of the transaction in flight and the position of the inspect loop.      *)
(* hist and start are history the engine itself never reads: hist lists    *)
(* the instructions the interpreter ran in this execute call, with what    *)
(* the interpreter held before and after each; start is the state and the  *)
(* transaction execute was called with.                                    *)
(***************************************************************************)
EmptyState == [a \in {} |-> DefaultAccount]

\* Engine::new
EngineNew ==
    [state |-> EmptyState, tracer |-> TracerNew, frames |-> << >>,
     phase |-> "idle", tx |-> None, pending |-> None, outcome |-> None,
     res |-> None, nframes |-> 0, hist |-> << >>, start |-> None, txn |-> 0]

\* Engine::create_account: HashMap::insert into the journal's state
create_account(E, address, account) ==
    [E EXCEPT !.state = (address :> account) @@ @]

\* Mutant: nothing is charged before execution
initial_gas_None(data) == 0

ZeroBytes(data) == Cardinality({i \in 1..Len(data) : data[i] = 0})
\* intrinsic gas of a call: 21000, 4 per zero byte and 16 per other byte
initial_gas(data) ==
    21000 + (4 * ZeroBytes(data)) + (16 * (Len(data) - ZeroBytes(data)))
\* EIP-7623 floor: 21000 and 10 per calldata token
floor_gas(data) ==
    21000 + (10 * (ZeroBytes(data) + (4 * (Len(data) - ZeroBytes(data)))))

\* Validation of the transaction against the environment and the caller
ValidationError(state, tx) ==
    LET caller == LoadAccount(state, ADDR_CALLER).state[ADDR_CALLER]
    IN  IF tx.gas_limit < initial_gas(tx.data) \/ tx.gas_limit < floor_gas(tx.data)
        THEN "CallGasCostMoreThanGasLimit"
        ELSE IF caller.code # NoCode THEN "RejectCallerWithCode"
        ELSE IF caller.nonce # tx.nonce THEN "NonceMismatch"
        ELSE ""

ErrResult(reason) ==
    [ok |-> FALSE,
     result |-> [kind |-> "Err", reason |-> reason, gas_used |-> 0, output |-> << >>],
     state |-> EmptyState, events |-> << >>]

\* Engine::execute up to the first frame's inputs.  A transaction that fails
\* validation makes inspect_with_tx return Err, which execute passes on with `?`.
execute_begin(E, tx) ==
    LET err == ValidationError(E.state, tx)
        loaded == LoadAccount(E.state, ADDR_CALLER).state
        bumped == [loaded EXCEPT ![ADDR_CALLER].nonce = @ + 1]
        inputs == [target |-> tx.to, gas_limit |-> tx.gas_limit - initial_gas(tx.data),
                   is_static |-> FALSE, ret |-> [offset |-> 0, size |-> 0]]
        E0 == [E EXCEPT !.hist = << >>, !.txn = @ + 1,
                        !.start = Some([state |-> E.state, tx |-> tx])]
    IN  IF err # ""
        THEN [E0 EXCEPT !.res = Some(ErrResult(err))]
        ELSE [E0 EXCEPT !.state = bumped, !.tx = Some(tx), !.res = None,
                        !.pending = Some(inputs), !.phase = "call"]

\* Frame::return_result: the outcome of a finished call goes to the frame
\* that made it, or ends the transaction.
return_result(E, outcome) ==
    IF Len(E.frames) = 0
    THEN [E EXCEPT !.outcome = Some(outcome), !.phase = "finish"]
    ELSE LET n == Len(E.frames)
             p == E.frames[n]
             data == SubSeq(outcome.output, 1, Min(outcome.ret.size, Len(outcome.output)))
             p1 == [p EXCEPT !.result = "Continue", !.action = None,
                             !.stack = Append(@, IF is_ok(outcome.result) THEN 1 ELSE 0)]
             p2 == IF is_ok_or_revert(outcome.result)
                   THEN [p1 EXCEPT !.gas = @ + outcome.gas,
                                   !.memory = SetBytes(@, outcome.ret.offset, data)]
                   ELSE p1
         IN  [E EXCEPT !.frames[n] = p2, !.outcome = None, !.phase = "step"]

\* make_call_frame: load the code; an account without code returns at once
make_call_frame(E, inputs) ==
    LET load == LoadAccount(E.state, inputs.target)
        code == load.state[inputs.target].code
        frame == [fid |-> E.nframes + 1, addr |-> inputs.target, code |-> code,
                  pc |-> 0, stack |-> << >>, memory |-> << >>,
                  gas |-> inputs.gas_limit, result |-> "Continue",
                  static |-> inputs.is_static, ret |-> inputs.ret,
                  action |-> None, output |-> << >>, checkpoint |-> load.state]
    IN  IF code = NoCode
        THEN [E EXCEPT !.state = load.state, !.pending = None,
                       !.outcome = Some([result |-> "Stop", gas |-> inputs.gas_limit,
                                         output |-> << >>, ret |-> inputs.ret]),
                       !.phase = "call_end"]
        ELSE [E EXCEPT !.state = load.state, !.pending = None,
                       !.frames = Append(@, frame), !.nframes = @ + 1,
                       !.phase = "init"]

\* frame_start: the inspector's call hook, then the frame
frame_start(E, insp) ==
    LET inputs == Unwrap(E.pending)
        sub == IF insp THEN Tracer_call(E.tracer, inputs) ELSE None
    IN  IF IsSome(sub) THEN return_result([E EXCEPT !.pending = None], Unwrap(sub))
        ELSE make_call_frame(E, inputs)

Panicked(E) == [E EXCEPT !.phase = "panicked"]

\* Apply a hook's result to the top frame
AfterHook(E, h, phase) ==
    IF h.panic THEN Panicked(E)
    ELSE [E EXCEPT !.tracer = h.tracer, !.frames[Len(E.frames)] = h.interp,
                   !.phase = IF Running(h.interp) THEN phase ELSE "next_action"]

initialize_interp(E, insp) ==
    IF insp
    THEN AfterHook(E, Tracer_initialize_interp(E.tracer, E.frames[Len(E.frames)]), "step")
    ELSE [E EXCEPT !.phase = "step"]

\* inspect_instructions: the step hook before the instruction ...
step(E, insp) ==
    IF insp
    THEN AfterHook(E, Tracer_step(E.tracer, E.frames[Len(E.frames)]), "exec")
    ELSE [E EXCEPT !.phase = "exec"]

HistEntry(f0, f1, depth) ==
    [fid |-> f0.fid, pc |-> f0.pc, op |-> OpAt(f0.code, f0.pc), gas |-> f0.gas,
     stack |-> f0.stack, memory |-> f0.memory,
     gas_after |-> f1.gas, memory_after |-> f1.memory, depth |-> depth,
     result |-> f1.result]

\* ... the instruction itself ...
exec(E) ==
    LET n == Len(E.frames)
        r == instruction(E.frames[n], E.state)
    IN  [E EXCEPT !.frames[n] = r.f, !.state = r.state,
                  !.hist = Append(@, HistEntry(E.frames[n], r.f, n)),
                  !.phase = "step_end"]

\* ... and the step_end hook after it; the loop goes on while the result is
\* Continue.
step_end(E, insp) ==
    LET n == Len(E.frames)
        h == IF insp THEN Tracer_step_end(E.tracer, E.frames[n], n)
             ELSE HookResult(E.tracer, E.frames[n], FALSE)
    IN  IF h.panic THEN Panicked(E)
        ELSE [E EXCEPT !.tracer = h.tracer, !.frames[n] = h.interp,
                       !.phase = IF Running(h.interp) THEN "step" ELSE "next_action"]

\* The interpreter's next action: a new call frame, or the frame's return
\* (the journal checkpoint is committed on success and reverted otherwise).
next_action(E) ==
    LET n == Len(E.frames)
        f == E.frames[n]
    IN  IF f.result = "CallOrCreate"
        THEN [E EXCEPT !.pending = f.action, !.phase = "call"]
        ELSE [E EXCEPT !.frames = SubSeq(@, 1, n - 1),
                       !.state = IF is_ok(f.result) THEN @
                                 ELSE checkpoint_revert(@, f.checkpoint),
                       !.outcome = Some([result |-> f.result, gas |-> f.gas,
                                         output |-> f.output, ret |-> f.ret]),
                       !.phase = "call_end"]

\* frame_end: the inspector's call_end hook, then the outcome is handed on
call_end(E, insp) ==
    LET h == IF insp THEN Tracer_call_end(E.tracer, Unwrap(E.outcome))
             ELSE [tracer |-> E.tracer, outcome |-> Unwrap(E.outcome)]
    IN  return_result([E EXCEPT !.tracer = h.tracer], h.outcome)

\* ExecutionResult: gas of a halted transaction is spent in full
ExecutionResult(tx, outcome) ==
    LET remaining == IF is_ok_or_revert(outcome.result) THEN outcome.gas ELSE 0
    IN  [kind |-> IF is_ok(outcome.result) THEN "Success"
                  ELSE IF outcome.result = "Revert" THEN "Revert" ELSE "Halt",
         reason |-> outcome.result,
         gas_used |-> Max(tx.gas_limit - remaining, floor_gas(tx.data)),
         output |-> outcome.output]

\* Mutant: the events are copied out and stay in the buffer
split_off_Clone(events) == [taken |-> events, left |-> events]

\* Mutant: split_off(1), which keeps the first event in the buffer
split_off_FromOne(events) ==
    [taken |-> SubSeq(events, 2, Len(events)), left |-> SubSeq(events, 1, Min(1, Len(events)))]

\* The events Engine::execute hands out: Vec::split_off(0) moves every
\* buffered event out and leaves the buffer empty.
split_off(events) == [taken |-> events, left |-> << >>]

\* The tail of Engine::execute: inspect_with_tx returns the result with the
\* journal's state (which the journal gives up), then the events are drained.
execute_return(E) ==
    LET so == split_off(E.tracer.events)
    IN  [E EXCEPT !.res = Some([ok |-> TRUE,
                                result |-> ExecutionResult(Unwrap(E.tx), Unwrap(E.outcome)),
                                state |-> E.state, events |-> so.taken]),
                  !.tracer.events = so.left,
                  !.state = EmptyState, !.tx = None, !.outcome = None,
                  !.phase = "idle"]

\* One move of an engine that is inside execute
EngineStep(E, insp) ==
    CASE E.phase = "call" -> frame_start(E, insp)
      [] E.phase = "init" -> initialize_interp(E, insp)
      [] E.phase = "step" -> step(E, insp)
      [] E.phase = "exec" -> exec(E)
      [] E.phase = "step_end" -> step_end(E, insp)
      [] E.phase = "next_action" -> next_action(E)
      [] E.phase = "call_end" -> call_end(E, insp)
      [] E.phase = "finish" -> execute_return(E)
      [] OTHER -> E

RECURSIVE RunToEnd(_, _)
RunToEnd(E, insp) ==
    IF E.phase \in {"idle", "panicked"} THEN E ELSE RunToEnd(EngineStep(E, insp), insp)

\* Engine::execute as one call, with or without the tracer's hooks
execute(E, tx, insp) == RunToEnd(execute_begin(E, tx), insp)


(***************************************************************************)
(* The library in use: one Engine, accounts created on it and transactions *)
(* executed on it, as the tests of the engine crate do.                    *)
(***************************************************************************)
\* engine: the library user's Engine.  engines: the Engine local to each
\* HTTP handler invocation.  requests: the HTTP requests, each with its
\* input, its position and its response.
\* pair: two Engines that are given one script, the same create_account
\* calls and then the same transaction, each at its own pace.
VARIABLES engine, engines, requests, pair

vars == << engine, engines, requests, pair >>
svc == << engines, requests, pair >>

Requests == 1..MaxRequests

\* TxEnv::default(): gas_limit 30_000_000, nonce 0, empty data
TxDefault(to) == [to |-> to, gas_limit |-> 30000000, data |-> << >>, nonce |-> 0]

\* The transactions execute is called with: the tests' two gas limits, a
\* limit that runs out at the first instruction, one below the intrinsic
\* cost, and one with calldata.
TxChoices ==
    { TxDefault(ADDR_CONTRACT),
      [TxDefault(ADDR_CONTRACT) EXCEPT !.gas_limit = 16777216],
      [TxDefault(ADDR_CONTRACT) EXCEPT !.gas_limit = 21002],
      [TxDefault(ADDR_CONTRACT) EXCEPT !.gas_limit = 20000],
      [TxDefault(ADDR_CONTRACT) EXCEPT !.data = << 190, 239, 0, 52 >>] }

\* The accounts create_account is called with
AccountChoices ==
    ({ADDR_CONTRACT} \X {CodeSimple, CodeUnderflow, CodeExample, CodeCall,
                         CodeRevert, NoCode})
    \cup ({ADDR_CALLEE} \X {CodeCallee, CodeInvalid})
    \cup ({ADDR_CALLER} \X {CodeSimple})

Init ==
    /\ engine = EngineNew
    /\ engines = [r \in Requests |-> EngineNew]
    /\ requests = [r \in Requests |->
                      [phase |-> "new", kind |-> "", input |-> << >>, response |-> None,
                       emitted |-> << >>]]
    /\ pair = [script |-> None, eng |-> [s \in {1, 2} |-> EngineNew],
               pos |-> [s \in {1, 2} |-> 0]]

CreateAccount ==
    /\ engine.phase = "idle"
    /\ engine.txn < MaxExecutes
    /\ \E c \in AccountChoices :
          engine' = create_account([engine EXCEPT !.res = None, !.start = None],
                                   c[1], from_bytecode(c[2]))
    /\ UNCHANGED svc

Execute ==
    /\ engine.phase = "idle"
    /\ engine.txn < MaxExecutes
    /\ \E tx \in TxChoices : engine' = execute_begin(engine, tx)
    /\ UNCHANGED svc

FrameStart ==
    /\ engine.phase = "call"
    /\ engine' = frame_start(engine, TRUE)
    /\ UNCHANGED svc

InitializeInterp ==
    /\ engine.phase = "init"
    /\ engine' = initialize_interp(engine, TRUE)
    /\ UNCHANGED svc

Step ==
    /\ engine.phase = "step"
    /\ engine' = step(engine, TRUE)
    /\ UNCHANGED svc

Exec ==
    /\ engine.phase = "exec"
    /\ engine' = exec(engine)
    /\ UNCHANGED svc

StepEnd ==
    /\ engine.phase = "step_end"
    /\ engine' = step_end(engine, TRUE)
    /\ UNCHANGED svc

NextAction ==
    /\ engine.phase = "next_action"
    /\ engine' = next_action(engine)
    /\ UNCHANGED svc

CallEnd ==
    /\ engine.phase = "call_end"
    /\ engine' = call_end(engine, TRUE)
    /\ UNCHANGED svc

ExecuteReturn ==
    /\ engine.phase = "finish"
    /\ engine' = execute_return(engine)
    /\ UNCHANGED svc

Next ==
    \/ CreateAccount
    \/ Execute
    \/ FrameStart
    \/ InitializeInterp
    \/ Step
    \/ Exec
    \/ StepEnd
    \/ NextAction
    \/ CallEnd
    \/ ExecuteReturn

Spec == Init /\ [][Next]_vars


(***************************************************************************)
(* Properties of the library engine.                                       *)
(***************************************************************************)
Res == Unwrap(engine.res)
\* execute has returned Ok and nothing has been called since
ReturnedOk == engine.phase = "idle" /\ IsSome(engine.res) /\ Res.ok
\* The events of the current execute call: those returned, or those
\* buffered so far
Trace == IF ReturnedOk THEN Res.events ELSE engine.tracer.events
Hist == engine.hist
IsFailure(result) == result \in ErrorResults \cup RevertResults

\* C1: when execute returns Ok, the returned list holds exactly one Step
\* event per instruction the interpreter ran in that transaction, in the
\* order the instructions ran.
C1_OneStepPerInstruction ==
    ReturnedOk =>
        /\ Len(Res.events) = Len(Hist)
        /\ \A i \in 1..Len(Hist) :
              /\ Res.events[i].type = "step"
              /\ Res.events[i].pc = Hist[i].pc
              /\ Res.events[i].op = Hist[i].op
              /\ Res.events[i].depth = Hist[i].depth

\* C1 witness: a returned trace of a transaction with a nested call frame
C1_Witness ==
    /\ ReturnedOk
    /\ Len(Res.events) >= 10
    /\ \E i \in 1..Len(Res.events) : Res.events[i].depth = 2

\* C2: the events a successful execute returns are the ones recorded during
\* that call: the buffer never holds an event of an earlier call, and what
\* is returned is everything recorded in this call.
C2_OnlyThisCallsEvents ==
    /\ Len(engine.tracer.events) <= Len(Hist)
    /\ engine.phase = "idle" => engine.tracer.events = << >>
    /\ ReturnedOk => Len(Res.events) = Len(Hist)

\* C2 witness: a second execute on the same engine returns events
C2_Witness == ReturnedOk /\ engine.txn = 2 /\ Len(Res.events) >= 2

\* C3: pc, op, gas, stack and memory of a Step are the interpreter's values
\* before the instruction ran; gasCost, depth and error are the values after it.
C3_PreAndPostFields ==
    /\ Len(Trace) <= Len(Hist)
    /\ \A i \in 1..Len(Trace) :
          /\ Trace[i].pc = Hist[i].pc
          /\ Trace[i].op = Hist[i].op
          /\ Trace[i].gas = Hist[i].gas
          /\ Trace[i].stack = Hist[i].stack
          /\ IsSome(Trace[i].memory) <=> Len(Hist[i].memory) > 0
          /\ IsSome(Trace[i].memory) =>
                Unwrap(Trace[i].memory) = encode_prefixed(Hist[i].memory)
          /\ Trace[i].gas_cost = Hist[i].gas - Hist[i].gas_after
          /\ Trace[i].depth = Hist[i].depth
          /\ IsSome(Trace[i].error) <=> IsFailure(Hist[i].result)

\* C3 witness: a PUSH1 that left a value on the stack is reported with the
\* empty stack it started from
C3_Witness ==
    \E i \in 1..Len(Trace) :
        /\ Trace[i].op = PUSH1
        /\ Trace[i].stack = << >>
        /\ Trace[i].gas_cost = 3
        /\ Len(engine.frames) >= 1
        /\ engine.frames[1].stack # << >>

\* C4: a Step carries an error description exactly when the instruction
\* result at step_end is an error or a revert, and the description names
\* that result.
C4_ErrorIffFailure ==
    \A i \in 1..Min(Len(Trace), Len(Hist)) :
        /\ IsSome(Trace[i].error) <=> IsFailure(Hist[i].result)
        /\ IsSome(Trace[i].error) => Unwrap(Trace[i].error) = Hist[i].result

\* C4 witness: a trace whose last instruction reverted, after instructions
\* that completed without error
C4_Witness ==
    /\ Len(Trace) >= 2
    /\ Trace[1].error = None
    /\ Trace[Len(Trace)].error = Some("Revert")


\* j is the instruction that follows i in i's own call frame
NextInFrame(i, j) ==
    /\ i < j
    /\ Hist[j].fid = Hist[i].fid
    /\ \A k \in (i + 1)..(j - 1) : Hist[k].fid # Hist[i].fid

\* instruction i took its frame's memory from empty to non-empty
FirstExpands(i) == Len(Hist[i].memory) = 0 /\ Len(Hist[i].memory_after) > 0

\* the memory field is absent exactly for an empty memory, and is otherwise
\* its prefixed hex encoding
MemoryFieldOf(i) ==
    /\ Trace[i].memory = None <=> Len(Hist[i].memory) = 0
    /\ IsSome(Trace[i].memory) =>
          /\ Unwrap(Trace[i].memory) = encode_prefixed(Hist[i].memory)
          /\ Len(Unwrap(Trace[i].memory)) = 2 + (2 * Len(Hist[i].memory))
          /\ SubSeq(Unwrap(Trace[i].memory), 1, 2) = << "0", "x" >>

\* C5 as stated: ... and the instruction after the one that first expands
\* memory is reported with the memory.
C5_AsStated ==
    \A i \in 1..Min(Len(Trace), Len(Hist)) :
        /\ MemoryFieldOf(i)
        /\ (FirstExpands(i) /\ i + 1 <= Len(Trace)) =>
              (Trace[i].memory = None /\ IsSome(Trace[i + 1].memory))

\* C5, amended: a Step has no memory field exactly when the memory of the
\* instruction's call frame was empty when it started, otherwise the field
\* is the 0x-prefixed hex of that memory, 2 + 2 * size characters; the
\* instruction that first expands memory is reported without memory, and the
\* next instruction of the same call frame is reported with it.
C5_MemoryField ==
    \A i \in 1..Min(Len(Trace), Len(Hist)) :
        /\ MemoryFieldOf(i)
        /\ FirstExpands(i) =>
              /\ Trace[i].memory = None
              /\ \A j \in 1..Len(Trace) : NextInFrame(i, j) => IsSome(Trace[j].memory)

\* C5 witness: a CALL expands its frame's memory, the callee's instructions
\* follow, and the caller's next instruction is reported with the memory
C5_Witness ==
    \E i \in 1..Len(Trace) : \E j \in 1..Len(Trace) :
        /\ FirstExpands(i)
        /\ NextInFrame(i, j)
        /\ j > i + 1
        /\ Trace[i + 1].memory = None
        /\ IsSome(Trace[j].memory)

StartOf == Unwrap(engine.start)
TargetHasNoCode ==
    \/ StartOf.tx.to \notin DOMAIN StartOf.state
    \/ StartOf.state[StartOf.tx.to].code = NoCode

C7_FirstGas ==
    Len(Trace) >= 1 =>
        LET tx == StartOf.tx
            zeros == Cardinality({k \in 1..Len(tx.data) : tx.data[k] = 0})
        IN  /\ Trace[1].gas =
                  tx.gas_limit - (21000 + (4 * zeros) + (16 * (Len(tx.data) - zeros)))
            /\ tx.data = << >> => Trace[1].gas = tx.gas_limit - 21000

\* C7 witness: tests::simple, whose first Step has gas 29979000
C7_Witness ==
    /\ ReturnedOk
    /\ Len(Trace) >= 1
    /\ StartOf.tx.gas_limit = 30000000
    /\ Trace[1].gas = 29979000

\* CALL, CALLCODE, DELEGATECALL, STATICCALL, CREATE and CREATE2
CallOrCreateOps == {240, 241, 242, 244, 245, 250}

\* C8: for consecutive Steps of one call frame whose earlier instruction is
\* not a call or create, the later gas is the earlier gas less its gasCost.
C8_GasChain ==
    \A i \in 1..(Min(Len(Trace), Len(Hist)) - 1) :
        (Hist[i].fid = Hist[i + 1].fid /\ Trace[i].op \notin CallOrCreateOps) =>
            Trace[i + 1].gas = Trace[i].gas - Trace[i].gas_cost

\* C8 witness: the instruction after a returned call and the one after it
C8_Witness ==
    \E i \in 2..(Len(Trace) - 1) :
        /\ Trace[i - 1].op \in CallOrCreateOps
        /\ Hist[i - 1].fid = Hist[i].fid
        /\ Hist[i].fid = Hist[i + 1].fid
        /\ Trace[i].gas_cost = 3
        /\ Trace[i].gas # Trace[i - 1].gas - Trace[i - 1].gas_cost

\* The same transaction on the same state, run without the tracer's hooks
PlainRun == Unwrap(execute([EngineNew EXCEPT !.state = StartOf.state], StartOf.tx, FALSE).res)

\* C9: the tracer only observes: its call hook substitutes no outcome, its
\* step hooks hand the interpreter back as they got it, and the result and
\* state of a transaction are those of a run without the tracer.
C9_TracerOnlyObserves ==
    /\ engine.phase = "call" => Tracer_call(engine.tracer, Unwrap(engine.pending)) = None
    /\ engine.phase = "init" =>
          Tracer_initialize_interp(engine.tracer, engine.frames[Len(engine.frames)]).interp
              = engine.frames[Len(engine.frames)]
    /\ engine.phase = "step" =>
          Tracer_step(engine.tracer, engine.frames[Len(engine.frames)]).interp
              = engine.frames[Len(engine.frames)]
    /\ engine.phase = "step_end" =>
          Tracer_step_end(engine.tracer, engine.frames[Len(engine.frames)],
                          Len(engine.frames)).interp
              = engine.frames[Len(engine.frames)]
    /\ (engine.phase = "idle" /\ IsSome(engine.res) /\ IsSome(engine.start)) =>
          /\ Res.ok = PlainRun.ok
          /\ Res.result = PlainRun.result
          /\ Res.state = PlainRun.state

\* C9 witness: a transaction whose nested call halted, so that call_end
\* spent the gas of the failed outcome
C9_Witness ==
    /\ ReturnedOk
    /\ \E i \in 1..Len(Res.events) :
          Res.events[i].depth = 2 /\ Res.events[i].error = Some("InvalidFEOpcode")


(***************************************************************************)
(* The HTTP service: the eval and transaction handlers.  Each invocation   *)
(* has a request slot r; its Engine is a local of the handler.             *)
(***************************************************************************)
\* The address eval puts the code at, 0xffff..ff
ADDR_EVAL == 65535

HexChars == {HexDigits[i] : i \in 1..16}
HexValue(c) == (CHOOSE i \in 1..16 : HexDigits[i] = c) - 1

\* Bytes::from_str: an optional 0x prefix, then an even number of hex digits
from_str(text) ==
    LET body == IF Len(text) >= 2 /\ SubSeq(text, 1, 2) = << "0", "x" >>
                THEN SubSeq(text, 3, Len(text)) ELSE text
    IN  IF Len(body) % 2 = 1 \/ \E i \in 1..Len(body) : body[i] \notin HexChars
        THEN None
        ELSE Some([i \in 1..(Len(body) \div 2) |->
                     (16 * HexValue(body[(2 * i) - 1])) + HexValue(body[2 * i])])

\* Mutant: every handler works on one shared engine
engine_of_Shared(r) == 1

\* The engine a handler invocation works on: `let mut engine = Engine::new(..)`
engine_of(r) == r

\* Engine::execute of the engine the service is written against: it returns
\* the ResultAndState alone, and the events stay with the tracer's delegate
\* until the handler takes them.
execute_return_delegate(E) ==
    LET R == execute_return(E)
    IN  [R EXCEPT !.tracer.events = E.tracer.events,
                  !.res = Some([Unwrap(R.res) EXCEPT !.events = << >>])]

\* Mutant: the delegate puts the newest event in front
Delegate_emit_Prepend(events, event) == << event >> \o events

\* Delegate::emit: the event goes to the end of the delegate's buffer
Delegate_emit(events, event) == Append(events, event)

RECURSIVE EmitAll(_, _)
EmitAll(events, emitted) ==
    IF emitted = << >> THEN events
    ELSE EmitAll(Delegate_emit(events, Head(emitted)), Tail(emitted))

\* The events the tracer emits on the engine's next move
Emitted(E) ==
    IF E.phase = "finish" THEN << >>
    ELSE EngineStep([E EXCEPT !.tracer.events = << >>], TRUE).tracer.events

\* One move of a handler's engine: what the tracer emits reaches the
\* delegate through emit
ServiceStep(E) ==
    IF E.phase = "finish" THEN execute_return_delegate(E)
    ELSE [EngineStep(E, TRUE) EXCEPT !.tracer.events = EmitAll(E.tracer.events, Emitted(E))]

RECURSIVE ServiceRun(_)
ServiceRun(E) ==
    IF E.phase \in {"idle", "panicked"} THEN E ELSE ServiceRun(ServiceStep(E))

\* The TxEnv both handlers execute: a call with gas_limit 0x1000000
ServiceTx(to) == [TxDefault(to) EXCEPT !.gas_limit = 16777216]

\* eval up to the start of the transaction: a fresh engine, the code at the
\* fixed address, then execute.  Code that does not parse ends the request.
eval_begin(code) ==
    LET parsed == from_str(code)
    IN  IF ~IsSome(parsed)
        THEN [engine |-> EngineNew, err |-> Some("invalid hex")]
        ELSE [engine |-> execute_begin(
                             create_account(EngineNew, ADDR_EVAL,
                                            from_bytecode(Unwrap(parsed))),
                             ServiceTx(ADDR_EVAL)),
              err |-> None]

\* EvmStorage as the request gives it: each slot holds its value, unchanged
\* and warm
with_storage(account, storage) ==
    [account EXCEPT !.storage =
        [k \in DOMAIN storage |->
            [original_value |-> storage[k], present_value |-> storage[k],
             is_cold |-> FALSE]]]

\* The account the transaction handler builds from one request entry
RequestAccount(a) ==
    with_storage(IF IsSome(a.code) THEN from_bytecode(Unwrap(a.code))
                 ELSE [DefaultAccount EXCEPT !.balance = a.balance, !.nonce = a.nonce],
                 a.storage)

RECURSIVE CreateAccounts(_, _)
CreateAccounts(E, accounts) ==
    IF accounts = << >> THEN E
    ELSE CreateAccounts(create_account(E, accounts[1].address, RequestAccount(accounts[1])),
                        Tail(accounts))

\* transaction up to the start of the transaction
transaction_begin(env) ==
    [engine |-> execute_begin(CreateAccounts(EngineNew, env.accounts),
                              ServiceTx(env.transaction.address)),
     err |-> None]

\* The handler's answer once execute has returned: Err(String) for a failed
\* execute, else the delegate's events and the summary
ResponseOf(E) ==
    IF ~Unwrap(E.res).ok
    THEN [ok |-> FALSE, error |-> Unwrap(E.res).result.reason, events |-> << >>,
          summary |-> [result |-> Unwrap(E.res).result, state |-> EmptyState]]
    ELSE [ok |-> TRUE, error |-> "", events |-> split_off(E.tracer.events).taken,
          summary |-> [result |-> Unwrap(E.res).result, state |-> Unwrap(E.res).state]]

ErrResponse(msg) ==
    [ok |-> FALSE, error |-> msg, events |-> << >>,
     summary |-> [result |-> ErrResult(msg).result, state |-> EmptyState]]

\* The request inputs: code for eval, environments for transaction
EvalCodes ==
    { << "6", "0", "4", "0" >>,
      << "0", "x", "5", "f", "5", "f", "f", "d" >>,
      << "6", "0", "z", "z" >> }

Environments ==
    { [accounts |-> << [address |-> ADDR_CONTRACT, balance |-> 5, nonce |-> 7,
                        code |-> Some(CodeStore), storage |-> (64 :> 7)] >>,
       transaction |-> [type |-> "call", address |-> ADDR_CONTRACT]],
      [accounts |-> << [address |-> ADDR_CALLEE, balance |-> 5, nonce |-> 0,
                        code |-> None, storage |-> EmptyStorage] >>,
       transaction |-> [type |-> "call", address |-> ADDR_CALLEE]] }

\* A handler starts: its engine is built and the transaction begins, or the
\* request ends at once with an error
Begin(r, kind, input, b) ==
    /\ requests[r].phase = "new"
    /\ engines' = [engines EXCEPT ![engine_of(r)] = b.engine]
    /\ requests' = [requests EXCEPT ![r] =
                      [phase |-> IF IsSome(b.err) THEN "done" ELSE "running",
                       kind |-> kind, input |-> input,
                       response |-> IF IsSome(b.err) THEN Some(ErrResponse(Unwrap(b.err)))
                                    ELSE None,
                       emitted |-> << >>]]
    /\ UNCHANGED << engine, pair >>

Eval(r) == \E code \in EvalCodes : Begin(r, "eval", code, eval_begin(code))

Transaction(r) == \E env \in Environments : Begin(r, "transaction", env, transaction_begin(env))

\* The engine of a running handler makes its next move; emitted keeps the
\* tracer's emit calls of the request in the order they were made
Drive(r) ==
    /\ requests[r].phase = "running"
    /\ engines[engine_of(r)].phase \notin {"idle", "panicked"}
    /\ engines' = [engines EXCEPT ![engine_of(r)] = ServiceStep(@)]
    /\ requests' = [requests EXCEPT ![r].emitted = @ \o Emitted(engines[engine_of(r)])]
    /\ UNCHANGED << engine, pair >>

\* execute has returned: the handler answers and drops its engine's events
Respond(r) ==
    /\ requests[r].phase = "running"
    /\ engines[engine_of(r)].phase = "idle"
    /\ IsSome(engines[engine_of(r)].res)
    /\ requests' = [requests EXCEPT ![r].phase = "done",
                                    ![r].response = Some(ResponseOf(engines[engine_of(r)]))]
    /\ engines' = [engines EXCEPT ![engine_of(r)].tracer.events =
                      split_off(@).left]
    /\ UNCHANGED << engine, pair >>

NextService ==
    \E r \in Requests :
        \/ Eval(r)
        \/ Transaction(r)
        \/ Drive(r)
        \/ Respond(r)

SpecService == Init /\ [][NextService]_vars

(***************************************************************************)
(* Properties of the service.                                              *)
(***************************************************************************)
\* What the handler answers to a request served alone on a fresh engine
SoloResponse(req) ==
    LET b == IF req.kind = "eval" THEN eval_begin(req.input)
             ELSE transaction_begin(req.input)
    IN  IF IsSome(b.err) THEN ErrResponse(Unwrap(b.err))
        ELSE ResponseOf(ServiceRun(b.engine))

\* C10: each request works on its own fresh engine, so under every
\* interleaving a request's response is the one it gets when served alone:
\* no account, storage or event of another request shows in it.
C10_RequestsIsolated ==
    \A r \in Requests :
        /\ requests[r].phase = "done" =>
              Unwrap(requests[r].response) = SoloResponse(requests[r])
        /\ requests[r].phase = "running" =>
              \A a \in DOMAIN engines[r].state :
                  \/ a = ADDR_CALLER
                  \/ requests[r].kind = "eval" /\ a = ADDR_EVAL
                  \/ /\ requests[r].kind = "transaction"
                     /\ \E i \in 1..Len(requests[r].input.accounts) :
                           requests[r].input.accounts[i].address = a

\* C10 witness: two requests with different inputs ran interleaved and both
\* were answered with events
C10_Witness ==
    \E r1 \in Requests : \E r2 \in Requests :
        /\ requests[r1].phase = "done"
        /\ requests[r2].phase = "done"
        /\ requests[r1].kind = "eval"
        /\ requests[r2].kind = "transaction"
        /\ Unwrap(requests[r1].response).ok
        /\ Unwrap(requests[r2].response).ok
        /\ Len(Unwrap(requests[r1].response).events) >= 2
        /\ Len(Unwrap(requests[r2].response).events) >= 3
        /\ 64 \in DOMAIN Unwrap(requests[r2].response).summary.state[ADDR_CONTRACT].storage


\* C11: a successful eval or transaction request answers with every event
\* the tracer emitted while the request executed, in the order of emission
\* (one per instruction run), and with the result and state of that same
\* execution.
C11_ResponseIsTraceAndSummary ==
    \A r \in Requests :
        (requests[r].phase = "done" /\ Unwrap(requests[r].response).ok) =>
            LET resp == Unwrap(requests[r].response)
                E == engines[r]
            IN  /\ resp.events = requests[r].emitted
                /\ Len(resp.events) = Len(E.hist)
                /\ \A i \in 1..Len(E.hist) :
                      /\ resp.events[i].pc = E.hist[i].pc
                      /\ resp.events[i].op = E.hist[i].op
                /\ resp.summary.result = Unwrap(E.res).result
                /\ resp.summary.state = Unwrap(E.res).state
                /\ Len(E.hist) > 0 => resp.summary.result =
                      ExecutionResult(Unwrap(E.start).tx,
                                      [result |-> E.hist[Len(E.hist)].result,
                                       gas |-> E.hist[Len(E.hist)].gas_after,
                                       output |-> resp.summary.result.output])

\* C11 witness: an answered eval and an answered transaction, each with
\* several events and a summary
C11_Witness ==
    \E r1 \in Requests : \E r2 \in Requests :
        /\ requests[r1].phase = "done" /\ requests[r1].kind = "eval"
        /\ requests[r2].phase = "done" /\ requests[r2].kind = "transaction"
        /\ Unwrap(requests[r1].response).ok
        /\ Unwrap(requests[r2].response).ok
        /\ Len(requests[r1].emitted) >= 2
        /\ Len(requests[r2].emitted) >= 3
        /\ Unwrap(requests[r2].response).events[1] # Unwrap(requests[r2].response).events[2]
        /\ Unwrap(requests[r2].response).summary.result.kind = "Success"


\* The accounts of a transaction request as they were in the engine when
\* execute was called
CreatedAccounts(r) == Unwrap(engines[r].start).state

\* Account a of the request is in the state with everything the request gave
CreatedAsRequested(state, a) ==
    /\ a.address \in DOMAIN state
    /\ state[a.address].balance = a.balance
    /\ state[a.address].nonce = a.nonce
    /\ state[a.address].code = (IF IsSome(a.code) THEN Unwrap(a.code) ELSE NoCode)
    /\ DOMAIN state[a.address].storage = DOMAIN a.storage
    /\ \A k \in DOMAIN a.storage : state[a.address].storage[k].present_value = a.storage[k]

\* C12: in the transaction endpoint every account of the request is created
\* at its address with the balance, nonce, code and storage of the request,
\* whether or not the account supplies code.
C12_AccountsAsRequested ==
    \A r \in Requests :
        (requests[r].kind = "transaction" /\ requests[r].phase \in {"running", "done"}) =>
            \A i \in 1..Len(requests[r].input.accounts) :
                CreatedAsRequested(CreatedAccounts(r), requests[r].input.accounts[i])


(***************************************************************************)
(* Two engines under one script.                                           *)
(***************************************************************************)
Sides == {1, 2}

\* The accounts and transactions of the scripts
PairAccounts ==
    ({ADDR_CONTRACT} \X {CodeCall, CodeSimple}) \cup ({ADDR_CALLEE} \X {CodeCallee, CodeInvalid})

PairTxs == {TxDefault(ADDR_CONTRACT), [TxDefault(ADDR_CONTRACT) EXCEPT !.gas_limit = 20000]}

AccountSeqs == UNION {[1..n -> PairAccounts] : n \in 0..MaxAccounts}

\* Mutant: the second engine is built with an account already in its state
FreshEngine_Seeded(s) ==
    IF s = 2 THEN create_account(EngineNew, ADDR_CALLEE, from_bytecode(CodeSimple))
    ELSE EngineNew

\* Engine::new() for engine s of the pair: the same configuration and an
\* empty database every time
FreshEngine(s) == EngineNew

\* The script is fixed and both engines are constructed
PairScript ==
    /\ pair.script = None
    /\ \E accounts \in AccountSeqs : \E tx \in PairTxs :
          pair' = [script |-> Some([accounts |-> accounts, tx |-> tx]),
                   eng |-> [s \in Sides |-> FreshEngine(s)],
                   pos |-> [s \in Sides |-> 0]]
    /\ UNCHANGED << engine, engines, requests >>

\* Engine s makes its next create_account call of the script
PairCreateAccount(s) ==
    /\ pair.script # None
    /\ pair.pos[s] < Len(Unwrap(pair.script).accounts)
    /\ LET c == Unwrap(pair.script).accounts[pair.pos[s] + 1]
       IN  pair' = [pair EXCEPT !.eng[s] = create_account(@, c[1], from_bytecode(c[2])),
                                !.pos[s] = @ + 1]
    /\ UNCHANGED << engine, engines, requests >>

\* Engine s is given the transaction of the script
PairExecute(s) ==
    /\ pair.script # None
    /\ pair.pos[s] = Len(Unwrap(pair.script).accounts)
    /\ pair' = [pair EXCEPT !.eng[s] = execute_begin(@, Unwrap(pair.script).tx),
                            !.pos[s] = @ + 1]
    /\ UNCHANGED << engine, engines, requests >>

\* Engine s makes its next move inside execute
PairStep(s) ==
    /\ pair.eng[s].phase \notin {"idle", "panicked"}
    /\ pair' = [pair EXCEPT !.eng[s] = EngineStep(@, TRUE)]
    /\ UNCHANGED << engine, engines, requests >>

NextPair ==
    \/ PairScript
    \/ \E s \in Sides :
          \/ PairCreateAccount(s)
          \/ PairExecute(s)
          \/ PairStep(s)

SpecPair == Init /\ [][NextPair]_vars

\* execute has returned on engine s of the pair
PairReturned(s) ==
    /\ pair.script # None
    /\ pair.pos[s] = Len(Unwrap(pair.script).accounts) + 1
    /\ pair.eng[s].phase = "idle"

====
